---- MODULE Spec2Model ----
(***************************************************************************)
(* encoji: bytes hidden in text as Unicode variation selectors.            *)
(* A model of src/encoji.go: the byte <-> variation-selector map, the two  *)
(* transforms EncodeText / DecodeText of a smuggler, the line loop Run and *)
(* the flag validation of Main.                                            *)
(*                                                                         *)
(* A Go string is a sequence of bytes (0..255); a text is a sequence of    *)
(* codepoints that reaches the program as its UTF-8 encoding.              *)
(***************************************************************************)
EXTENDS Integers, Sequences, FiniteSets, TLC

VARIABLES
    \* the map layer (byteToVariationSelector / variationSelectorToByte)
    mapPc, b, vs, back,
    \* one smuggler and one EncodeText / DecodeText call on it
    phase, line, clearText, target, encoded, encErr, decIn, decoded, decErr,
    \* Main and Run
    pc, flags, args, osStdin, s, consumed, scanErr, stdout, stderr,
    runRet, runErr, versionPrinted, status

mapVars == <<mapPc, b, vs, back>>
textVars == <<phase, line, clearText, target, encoded, encErr, decIn, decoded, decErr>>
runVars == <<pc, flags, args, osStdin, s, consumed, scanErr, stdout, stderr,
             runRet, runErr, versionPrinted, status>>
vars == <<mapVars, textVars, runVars>>

----------------------------------------------------------------------------
(* Bounds of the model *)

\* longest carrier line given to EncodeText, in codepoints
MaxCarrierLen == 2
\* longest payload (clearText), in bytes
MaxPayloadLen == 2
\* longest text given directly to DecodeText, in codepoints
MaxTextLen == 3
\* most input lines of one Run
MaxLines == 3
\* codepoints checked on each side of the two selector ranges
RangeMargin == 70

----------------------------------------------------------------------------
(* Program constants *)

StatusOK == 0
MissingInputError == 1
TooManyInputsError == 2
MissingTextToEncodeError == 3
ExecutionError == 4

\* 0xFE00, 0xFE0F, 0xE0100, 0xE01EF
range1S == 65024
range1E == 65039
range2S == 917760
range2E == 917999

\* unicode/utf8: RuneError U+FFFD, RuneSelf 0x80, MaxRune U+10FFFF, UTFMax
RuneError == 65533
RuneSelf == 128
MaxRune == 1114111
UTFMax == 4

Bytes == 0..255

----------------------------------------------------------------------------
(* The byte <-> variation selector map *)

\* a plausible slip: the second range not shifted down by the 16 bytes of the first
byteToVariationSelector_NoShift(x) ==
    IF x < 16 THEN range1S + x ELSE range2S + x

\* another: the boundary between the two ranges off by one (b <= 16)
byteToVariationSelector_Le(x) ==
    IF x <= 16 THEN range1S + x ELSE range2S + ((x - 16) % 256)

byteToVariationSelector(x) ==
    IF x < 16 THEN range1S + x ELSE range2S + ((x - 16) % 256)

\* for i := lo; i <= hi; i++ { if varSel == i { return ... } }: the loop
\* returns at the i that equals varSel, when there is one among lo..hi
RangeLoop(varSel, lo, hi) == \E i \in lo..hi : varSel = i

\* the same loop stopping one short of the range's end (i < hi)
RangeLoop_Short(varSel, lo, hi) == \E i \in lo..(hi - 1) : varSel = i

variationSelectorToByte_Short(r) ==
    IF RangeLoop_Short(r, range1S, range1E)
    THEN [byte |-> (r - range1S) % 256, err |-> FALSE]
    ELSE IF RangeLoop_Short(r, range2S, range2E)
    THEN [byte |-> (r - range2S + 16) % 256, err |-> FALSE]
    ELSE [byte |-> 0, err |-> TRUE]

\* uint32(vs) is vs itself: every rune handed in comes from ranging over a
\* string and is in 0..MaxRune
variationSelectorToByte(r) ==
    IF RangeLoop(r, range1S, range1E)
    THEN [byte |-> (r - range1S) % 256, err |-> FALSE]
    ELSE IF RangeLoop(r, range2S, range2E)
    THEN [byte |-> (r - range2S + 16) % 256, err |-> FALSE]
    ELSE [byte |-> 0, err |-> TRUE]

----------------------------------------------------------------------------
(* UTF-8, as the Go runtime and unicode/utf8 do it *)

\* strings.Builder.WriteRune / utf8.AppendRune
EncodeRune(r) ==
    IF r < 0 \/ r > MaxRune \/ (r >= 55296 /\ r <= 57343)
    THEN <<239, 191, 189>>
    ELSE IF r < 128 THEN <<r>>
    ELSE IF r < 2048 THEN <<192 + (r \div 64), 128 + (r % 64)>>
    ELSE IF r < 65536
    THEN <<224 + (r \div 4096), 128 + ((r \div 64) % 64), 128 + (r % 64)>>
    ELSE <<240 + (r \div 262144), 128 + ((r \div 4096) % 64),
           128 + ((r \div 64) % 64), 128 + (r % 64)>>

\* the UTF-8 encoding of a text
RECURSIVE Utf8(_)
Utf8(cps) ==
    IF cps = <<>> THEN <<>> ELSE EncodeRune(Head(cps)) \o Utf8(Tail(cps))

\* utf8.first: the length a lead byte announces, 0 for a byte that starts nothing
SeqSize(s0) ==
    IF s0 >= 194 /\ s0 <= 223 THEN 2
    ELSE IF s0 >= 224 /\ s0 <= 239 THEN 3
    ELSE IF s0 >= 240 /\ s0 <= 244 THEN 4
    ELSE 0

\* utf8.acceptRanges: what the second byte may be
AcceptLo(s0) == IF s0 = 224 THEN 160 ELSE IF s0 = 240 THEN 144 ELSE 128
AcceptHi(s0) == IF s0 = 237 THEN 159 ELSE IF s0 = 244 THEN 143 ELSE 191

IsCont(x) == x >= 128 /\ x <= 191

\* utf8.DecodeRuneInString on a non-empty string: <<rune, width>>
DecodeRune(str) ==
    LET n == Len(str)
        s0 == str[1]
        sz == SeqSize(s0)
    IN  IF s0 < RuneSelf THEN <<s0, 1>>
        ELSE IF sz = 0 \/ n < sz THEN <<RuneError, 1>>
        ELSE IF str[2] < AcceptLo(s0) \/ str[2] > AcceptHi(s0) THEN <<RuneError, 1>>
        ELSE IF sz = 2 THEN <<(s0 % 32) * 64 + (str[2] % 64), 2>>
        ELSE IF ~IsCont(str[3]) THEN <<RuneError, 1>>
        ELSE IF sz = 3
        THEN <<(s0 % 16) * 4096 + (str[2] % 64) * 64 + (str[3] % 64), 3>>
        ELSE IF ~IsCont(str[4]) THEN <<RuneError, 1>>
        ELSE <<(s0 % 8) * 262144 + (str[2] % 64) * 4096
               + (str[3] % 64) * 64 + (str[4] % 64), 4>>

\* for _, r := range str: the runes of a string, U+FFFD for each byte that
\* is not part of a valid encoding
RECURSIVE Runes(_)
Runes(str) ==
    IF str = <<>> THEN <<>>
    ELSE LET d == DecodeRune(str)
         IN  <<d[1]>> \o Runes(SubSeq(str, d[2] + 1, Len(str)))

----------------------------------------------------------------------------
(* strings.TrimSpace *)

\* unicode.IsSpace
IsSpace(r) ==
    \/ r \in {9, 10, 11, 12, 13, 32, 133, 160}
    \/ r = 5760
    \/ (r >= 8192 /\ r <= 8202)
    \/ r \in {8232, 8233, 8239, 8287, 12288}

\* strings.asciiSpace
IsAsciiSpace(c) == c \in {9, 10, 11, 12, 13, 32}

\* utf8.RuneStart
RuneStart(c) == c < 128 \/ c > 191

\* the loop of utf8.DecodeLastRuneInString looking for the start of the last
\* rune: start goes down to lim and stops at a rune start (0-based positions)
RECURSIVE FindStart(_, _, _)
FindStart(str, start, lim) ==
    IF start < lim THEN start
    ELSE IF RuneStart(str[start + 1]) THEN start
    ELSE FindStart(str, start - 1, lim)

\* utf8.DecodeLastRuneInString on a non-empty string: <<rune, width>>
DecodeLastRune(str) ==
    LET end == Len(str)
        last == str[end]
        lim == IF end - UTFMax < 0 THEN 0 ELSE end - UTFMax
        found == FindStart(str, end - 2, lim)
        start == IF found < 0 THEN 0 ELSE found
        d == DecodeRune(SubSeq(str, start + 1, end))
    IN  IF last < RuneSelf THEN <<last, 1>>
        ELSE IF start + d[2] # end THEN <<RuneError, 1>>
        ELSE d

\* strings.TrimLeftFunc(str, unicode.IsSpace)
RECURSIVE TrimLeftFunc(_)
TrimLeftFunc(str) ==
    IF str = <<>> THEN <<>>
    ELSE LET d == DecodeRune(str)
         IN  IF IsSpace(d[1]) THEN TrimLeftFunc(SubSeq(str, d[2] + 1, Len(str)))
             ELSE str

\* strings.lastIndexFunc(str, unicode.IsSpace, false) from position i down:
\* the 0-based position of the last rune that is no space, -1 when there is none
RECURSIVE lastIndexFunc(_, _)
lastIndexFunc(str, i) ==
    IF i <= 0 THEN -1
    ELSE LET d == DecodeLastRune(SubSeq(str, 1, i))
             j == i - d[2]
         IN  IF ~IsSpace(d[1]) THEN j ELSE lastIndexFunc(str, j)

\* strings.TrimRightFunc(str, unicode.IsSpace)
TrimRightFunc(str) ==
    LET i == lastIndexFunc(str, Len(str))
        k == IF i >= 0 /\ str[i + 1] >= RuneSelf
             THEN i + DecodeRune(SubSeq(str, i + 1, Len(str)))[2]
             ELSE i + 1
    IN  SubSeq(str, 1, k)

\* the first loop of TrimSpace: the 0-based position where the scan from the
\* left stops, at a byte that is no ASCII space or is not ASCII
RECURSIVE LeftStop(_, _)
LeftStop(str, start) ==
    IF start >= Len(str) THEN start
    ELSE IF str[start + 1] >= RuneSelf THEN start
    ELSE IF ~IsAsciiSpace(str[start + 1]) THEN start
    ELSE LeftStop(str, start + 1)

\* the second loop: where the scan from the right stops
RECURSIVE RightStop(_, _, _)
RightStop(str, start, stop) ==
    IF stop <= start THEN stop
    ELSE IF str[stop] >= RuneSelf THEN stop
    ELSE IF ~IsAsciiSpace(str[stop]) THEN stop
    ELSE RightStop(str, start, stop - 1)

TrimSpace(str) ==
    LET start == LeftStop(str, 0)
        stop == RightStop(str, start, Len(str))
    IN  IF start < Len(str) /\ str[start + 1] >= RuneSelf
        THEN TrimRightFunc(TrimLeftFunc(SubSeq(str, start + 1, Len(str))))
        ELSE IF stop > start /\ str[stop] >= RuneSelf
        THEN TrimRightFunc(SubSeq(str, start + 1, stop))
        ELSE SubSeq(str, start + 1, stop)

----------------------------------------------------------------------------
(* encode, decode and the two methods of a smuggler *)

\* for _, b := range sentence { s.WriteRune(byteToVariationSelector(b)) }
RECURSIVE WriteSelectors(_)
WriteSelectors(sentence) ==
    IF sentence = <<>> THEN <<>>
    ELSE EncodeRune(byteToVariationSelector(Head(sentence)))
         \o WriteSelectors(Tail(sentence))

encode(base, sentence) == EncodeRune(base) \o WriteSelectors(sentence)

\* the fallback left out: a codepoint that is no selector writes nothing
RECURSIVE decodeRunes_Skip(_)
decodeRunes_Skip(rs) ==
    IF rs = <<>> THEN <<>>
    ELSE LET r == variationSelectorToByte(Head(rs))
         IN  (IF ~r.err THEN <<r.byte>> ELSE <<>>) \o decodeRunes_Skip(Tail(rs))

decode_Skip(varSels) == decodeRunes_Skip(Runes(varSels))

\* the body of decode's loop over the runes of varSels
RECURSIVE decodeRunes(_)
decodeRunes(rs) ==
    IF rs = <<>> THEN <<>>
    ELSE LET r == variationSelectorToByte(Head(rs))
         IN  (IF ~r.err THEN <<r.byte>> ELSE <<10>>) \o decodeRunes(Tail(rs))

decode(varSels) == decodeRunes(Runes(varSels))

\* the check of the payload left out
EncodeText_NoPayloadCheck(sm, tgt) ==
    IF Len(tgt) = 0 THEN [res |-> <<>>, err |-> "target cannot be empty"]
    ELSE [res |-> encode(tgt[1], sm.clearText)
                  \o (IF Len(tgt) > 1 THEN SubSeq(tgt, 2, Len(tgt)) ELSE <<>>),
          err |-> ""]

\* smuggler.EncodeText; err = "" is Go's nil. rune(target[0]) is the first
\* BYTE of the string taken as a codepoint.
EncodeText(sm, tgt) ==
    IF Len(tgt) = 0 THEN [res |-> <<>>, err |-> "target cannot be empty"]
    ELSE IF Len(sm.clearText) = 0
    THEN [res |-> <<>>, err |-> "clear text cannot be empty"]
    ELSE [res |-> encode(tgt[1], sm.clearText)
                  \o (IF Len(tgt) > 1 THEN SubSeq(tgt, 2, Len(tgt)) ELSE <<>>),
          err |-> ""]

\* the trim left out
DecodeText_NoTrim(sm, tgt) ==
    IF Len(tgt) = 0 THEN [res |-> <<>>, err |-> "target cannot be empty"]
    ELSE [res |-> decode(tgt), err |-> ""]

\* smuggler.DecodeText
DecodeText(sm, tgt) ==
    IF Len(tgt) = 0 THEN [res |-> <<>>, err |-> "target cannot be empty"]
    ELSE [res |-> TrimSpace(decode(tgt)), err |-> ""]

----------------------------------------------------------------------------
(* Inputs *)

\* all sequences over S of length at most n
SeqsUpTo(S, n) == UNION {[1..k -> S] : k \in 0..n}

\* codepoints for carrier lines: 'A', U+00E9 (two bytes), U+1F600 (four
\* bytes), and two variation selectors (of the bytes 'A' and newline)
CarrierAlphabet == {65, 233, 128512, 917809, 65034}

\* payload bytes: '!', 'A', '~' and the space
PayloadAlphabet == {33, 65, 126, 32}

\* codepoints for texts to decode: 'A', U+1F600, U+2003, and the selectors
\* of the bytes 'A', newline, 0xC2 and 0xA0
TextAlphabet == {65, 128512, 8195, 917809, 65034, 917938, 917904}

\* codepoints given to the reverse map: the start of the codepoint space,
\* both selector ranges with a margin on each side, U+FFFD and the last one
CodepointInputs ==
    (0..RangeMargin)
    \cup ((range1S - RangeMargin)..(range1E + RangeMargin))
    \cup ((range2S - RangeMargin)..(range2E + RangeMargin))
    \cup {RuneError, MaxRune}

\* the state of the parts a specification leaves alone
IdleMap == mapPc = "idle" /\ b = -1 /\ vs = -1 /\ back = [byte |-> 0, err |-> FALSE]
IdleText ==
    /\ phase = "idle" /\ line = <<>> /\ clearText = <<>> /\ target = <<>>
    /\ encoded = <<>> /\ encErr = "" /\ decIn = <<>> /\ decoded = <<>> /\ decErr = ""
IdleRun ==
    /\ pc = "idle" /\ flags = <<>> /\ args = <<>> /\ osStdin = <<>>
    /\ s = [stdin |-> <<>>, clearText |-> <<>>, encode |-> FALSE]
    /\ consumed = <<>> /\ scanErr = FALSE /\ stdout = <<>> /\ stderr = <<>>
    /\ runRet = "none" /\ runErr = "" /\ versionPrinted = FALSE /\ status = -1

----------------------------------------------------------------------------
(* SpecMap: the two directions of the map, applied to a byte or a codepoint *)

InitMap ==
    /\ \/ mapPc = "byte" /\ b \in Bytes /\ vs = -1
       \/ mapPc = "rune" /\ b = -1 /\ vs \in CodepointInputs
    /\ back = [byte |-> 0, err |-> FALSE]
    /\ IdleText /\ IdleRun

CallByteToVariationSelector ==
    /\ mapPc = "byte"
    /\ vs' = byteToVariationSelector(b)
    /\ mapPc' = "selector"
    /\ UNCHANGED <<b, back, textVars, runVars>>

CallVariationSelectorToByte ==
    /\ mapPc \in {"selector", "rune"}
    /\ back' = variationSelectorToByte(vs)
    /\ mapPc' = "back"
    /\ UNCHANGED <<b, vs, textVars, runVars>>

NextMap == CallByteToVariationSelector \/ CallVariationSelectorToByte

SpecMap == InitMap /\ [][NextMap]_vars

----------------------------------------------------------------------------
(* SpecEncode: EncodeText on a carrier line, then DecodeText on its result, *)
(* or DecodeText on the line itself.  SpecDecode: DecodeText on a text.     *)

InitEncode ==
    /\ phase = "start"
    /\ line \in SeqsUpTo(CarrierAlphabet, MaxCarrierLen)
    /\ clearText \in SeqsUpTo(PayloadAlphabet, MaxPayloadLen)
    /\ target = Utf8(line)
    /\ encoded = <<>> /\ encErr = "" /\ decIn = <<>> /\ decoded = <<>> /\ decErr = ""
    /\ IdleMap /\ IdleRun

InitDecode ==
    /\ phase = "start"
    /\ line \in SeqsUpTo(TextAlphabet, MaxTextLen)
    /\ clearText = <<>>
    /\ target = Utf8(line)
    /\ encoded = <<>> /\ encErr = "" /\ decIn = <<>> /\ decoded = <<>> /\ decErr = ""
    /\ IdleMap /\ IdleRun

CallEncodeText ==
    /\ phase = "start"
    /\ LET r == EncodeText([clearText |-> clearText], target)
       IN  encoded' = r.res /\ encErr' = r.err
    /\ phase' = "encoded"
    /\ UNCHANGED <<line, clearText, target, decIn, decoded, decErr, mapVars, runVars>>

\* DecodeText on what EncodeText returned
CallDecodeText ==
    /\ phase = "encoded" /\ encErr = ""
    /\ decIn' = encoded
    /\ LET r == DecodeText([clearText |-> clearText], encoded)
       IN  decoded' = r.res /\ decErr' = r.err
    /\ phase' = "decoded"
    /\ UNCHANGED <<line, clearText, target, encoded, encErr, mapVars, runVars>>

\* DecodeText on the line itself
CallDecodeTextOnLine ==
    /\ phase = "start"
    /\ decIn' = target
    /\ LET r == DecodeText([clearText |-> clearText], target)
       IN  decoded' = r.res /\ decErr' = r.err
    /\ phase' = "decodedLine"
    /\ UNCHANGED <<line, clearText, target, encoded, encErr, mapVars, runVars>>

NextEncode == CallEncodeText \/ CallDecodeText \/ CallDecodeTextOnLine

SpecEncode == InitEncode /\ [][NextEncode]_vars

NextDecode == CallDecodeTextOnLine

SpecDecode == InitDecode /\ [][NextDecode]_vars

----------------------------------------------------------------------------
(* Spec: Main, the construction of the smuggler, and Run *)

\* const Version = "0.1.2", and the line Main prints for -version
Version == <<48, 46, 49, 46, 50>>
VersionLine ==
    <<101, 110, 99, 111, 106, 105, 32, 118, 101, 114, 115, 105, 111, 110, 32>>
    \o Version \o <<10>>

\* the command line: which flags are set, and the value of each (its default
\* when it is not set)
FlagNames == {"decode", "encode", "encodefile", "version"}
FileNames == {"payload.txt", "empty.txt", "missing.txt"}
CommandLines ==
    {f \in [set : SUBSET FlagNames, decode : BOOLEAN, encode : {<<>>, <<33>>},
            encodefile : {""} \cup FileNames, version : BOOLEAN] :
        /\ "decode" \notin f.set => f.decode = FALSE
        /\ "encode" \notin f.set => f.encode = <<>>
        /\ "encodefile" \notin f.set => f.encodefile = ""
        /\ "version" \notin f.set => f.version = FALSE}

\* flag.NFlag()
NFlag(f) == Cardinality(f.set)

\* the files os.Open finds, and what io.ReadAll reads from each
FileExists(name) == name \in {"payload.txt", "empty.txt"}
FileContents(name) == IF name = "payload.txt" THEN <<65, 126>> ELSE <<>>

\* the lines a Run may read: an empty line, "A", and "A" with the selector
\* of '!' behind it
InputLines == {<<>>, <<65>>, Utf8(<<65, 917777>>)}

\* the positional arguments: none, or "A" "B"
ArgLists == {<<>>, << <<65>>, <<66>> >>}

\* strings.Join(args, " ")
RECURSIVE Join(_)
Join(as) ==
    IF as = <<>> THEN <<>>
    ELSE IF Len(as) = 1 THEN as[1]
    ELSE as[1] \o <<32>> \o Join(Tail(as))

\* the options of NewSmuggler; each returns the smuggler and an error
WithInputFromArgs(as, sm) ==
    IF Len(as) < 1 THEN [s |-> sm, err |-> ""]
    ELSE [s |-> [sm EXCEPT !.stdin =
                    IF Join(as) = <<>> THEN <<>> ELSE <<Join(as)>>],
          err |-> ""]

WithClearText(text, sm) == [s |-> [sm EXCEPT !.clearText = text], err |-> ""]

WithClearFile(file, sm) ==
    IF ~FileExists(file) THEN [s |-> sm, err |-> "open: no such file"]
    ELSE [s |-> [sm EXCEPT !.clearText = FileContents(file)], err |-> ""]

WithEncodeFlag(f, sm) == [s |-> [sm EXCEPT !.encode = f], err |-> ""]

\* NewSmuggler as Main calls it: the defaults, then WithInputFromArgs,
\* WithOutput, WithError (the writers are the variables stdout and stderr),
\* WithEncodeFlag(!decode) and the payload option, stopping at the first error
NewSmuggler(f, as, in) ==
    LET s0 == [stdin |-> in, clearText |-> <<>>, encode |-> FALSE]
        s1 == WithInputFromArgs(as, s0).s
        s2 == WithEncodeFlag(~f.decode, s1).s
    IN  IF f.encode = <<>> /\ f.encodefile # ""
        THEN WithClearFile(f.encodefile, s2)
        ELSE WithClearText(f.encode, s2)

\* the first test of Main: no flag carries a value to work with
NoneUsable(f) ==
    ~f.decode /\ f.encode = <<>> /\ f.encodefile = "" /\ ~f.version

Init ==
    /\ pc = "main"
    /\ flags \in CommandLines
    /\ args \in ArgLists
    /\ osStdin \in SeqsUpTo(InputLines, MaxLines)
    /\ s = [stdin |-> <<>>, clearText |-> <<>>, encode |-> FALSE]
    /\ consumed = <<>> /\ scanErr = FALSE /\ stdout = <<>> /\ stderr = <<>>
    /\ runRet = "none" /\ runErr = "" /\ versionPrinted = FALSE /\ status = -1
    /\ IdleMap /\ IdleText

\* Main returns MissingInputError after flag.Usage()
MainMissingInput ==
    /\ pc = "main"
    /\ NoneUsable(flags)
    /\ stderr' = Append(stderr, <<"Usage", "">>)
    /\ status' = MissingInputError
    /\ pc' = "done"
    /\ UNCHANGED <<flags, args, osStdin, s, consumed, scanErr, stdout, runRet,
                   runErr, versionPrinted, mapVars, textVars>>

\* the second test taken first: more than one flag, whatever the values
MainTooManyInputs_First ==
    /\ pc = "main"
    /\ NFlag(flags) > 1
    /\ stderr' = stderr \o << <<"Error:", "too many flags provided">>, <<"Usage", "">> >>
    /\ status' = TooManyInputsError
    /\ pc' = "done"
    /\ UNCHANGED <<flags, args, osStdin, s, consumed, scanErr, stdout, runRet,
                   runErr, versionPrinted, mapVars, textVars>>

\* Main returns TooManyInputsError
MainTooManyInputs ==
    /\ pc = "main"
    /\ ~NoneUsable(flags)
    /\ NFlag(flags) > 1
    /\ stderr' = stderr \o << <<"Error:", "too many flags provided">>, <<"Usage", "">> >>
    /\ status' = TooManyInputsError
    /\ pc' = "done"
    /\ UNCHANGED <<flags, args, osStdin, s, consumed, scanErr, stdout, runRet,
                   runErr, versionPrinted, mapVars, textVars>>

\* Main prints the version
MainVersion ==
    /\ pc = "main"
    /\ ~NoneUsable(flags) /\ NFlag(flags) <= 1
    /\ flags.version
    /\ stdout' = Append(stdout, VersionLine)
    /\ versionPrinted' = TRUE
    /\ status' = StatusOK
    /\ pc' = "done"
    /\ UNCHANGED <<flags, args, osStdin, s, consumed, scanErr, stderr, runRet,
                   runErr, mapVars, textVars>>

\* NewSmuggler returns an error
MainSmugglerFails ==
    /\ pc = "main"
    /\ ~NoneUsable(flags) /\ NFlag(flags) <= 1 /\ ~flags.version
    /\ LET r == NewSmuggler(flags, args, osStdin)
       IN  /\ r.err # ""
           /\ stderr' = Append(stderr, <<"Error:", r.err>>)
    /\ status' = ExecutionError
    /\ pc' = "done"
    /\ UNCHANGED <<flags, args, osStdin, s, consumed, scanErr, stdout, runRet,
                   runErr, versionPrinted, mapVars, textVars>>

\* NewSmuggler succeeds and Main calls Run
MainCallsRun ==
    /\ pc = "main"
    /\ ~NoneUsable(flags) /\ NFlag(flags) <= 1 /\ ~flags.version
    /\ LET r == NewSmuggler(flags, args, osStdin)
       IN  /\ r.err = ""
           /\ s' = r.s
    /\ pc' = "run"
    /\ UNCHANGED <<flags, args, osStdin, consumed, scanErr, stdout, stderr,
                   runRet, runErr, versionPrinted, status, mapVars, textVars>>

\* the transform Run selects by the mode flag
Transform(sm, tgt) == IF sm.encode THEN EncodeText(sm, tgt) ELSE DecodeText(sm, tgt)

\* Run carrying on after a failed line instead of returning
RunLine_Continue ==
    /\ pc = "run"
    /\ s.stdin # <<>>
    /\ LET tgt == Head(s.stdin)
           r == Transform(s, tgt)
       IN  /\ consumed' = Append(consumed, tgt)
           /\ s' = [s EXCEPT !.stdin = Tail(s.stdin)]
           /\ stdout' = IF r.err # "" THEN stdout ELSE Append(stdout, r.res \o <<10>>)
           /\ UNCHANGED <<runRet, runErr, pc>>
    /\ UNCHANGED <<flags, args, osStdin, scanErr, stderr, versionPrinted, status,
                   mapVars, textVars>>

\* Run taking the mode flag the wrong way round
RunLine_Swapped ==
    /\ pc = "run"
    /\ s.stdin # <<>>
    /\ LET tgt == Head(s.stdin)
           r == IF s.encode THEN DecodeText(s, tgt) ELSE EncodeText(s, tgt)
       IN  /\ consumed' = Append(consumed, tgt)
           /\ s' = [s EXCEPT !.stdin = Tail(s.stdin)]
           /\ IF r.err # ""
              THEN /\ runRet' = "err" /\ runErr' = r.err /\ pc' = "ret"
                   /\ UNCHANGED stdout
              ELSE /\ stdout' = Append(stdout, r.res \o <<10>>)
                   /\ UNCHANGED <<runRet, runErr, pc>>
    /\ UNCHANGED <<flags, args, osStdin, scanErr, stderr, versionPrinted, status,
                   mapVars, textVars>>

\* one turn of Run's loop: Scan returns a line, the line is transformed, and
\* either Run returns the error or the result is written with Fprintln
RunLine ==
    /\ pc = "run"
    /\ s.stdin # <<>>
    /\ LET tgt == Head(s.stdin)
           r == Transform(s, tgt)
       IN  /\ consumed' = Append(consumed, tgt)
           /\ s' = [s EXCEPT !.stdin = Tail(s.stdin)]
           /\ IF r.err # ""
              THEN /\ runRet' = "err" /\ runErr' = r.err /\ pc' = "ret"
                   /\ UNCHANGED stdout
              ELSE /\ stdout' = Append(stdout, r.res \o <<10>>)
                   /\ UNCHANGED <<runRet, runErr, pc>>
    /\ UNCHANGED <<flags, args, osStdin, scanErr, stderr, versionPrinted, status,
                   mapVars, textVars>>

\* Scan returns false at the end of the input: Run returns nil
RunEnd ==
    /\ pc = "run"
    /\ s.stdin = <<>>
    /\ runRet' = "nil"
    /\ pc' = "ret"
    /\ UNCHANGED <<flags, args, osStdin, s, consumed, scanErr, stdout, stderr,
                   runErr, versionPrinted, status, mapVars, textVars>>

\* Scan returns false because reading os.Stdin failed before its end; Run
\* does not look at scan.Err() and returns nil
RunScanFails ==
    /\ pc = "run"
    /\ args = <<>>
    /\ s.stdin # <<>>
    /\ scanErr' = TRUE
    /\ runRet' = "nil"
    /\ pc' = "ret"
    /\ UNCHANGED <<flags, args, osStdin, s, consumed, stdout, stderr,
                   runErr, versionPrinted, status, mapVars, textVars>>

\* Main after Run: the error is reported, or StatusOK
MainReturn ==
    /\ pc = "ret"
    /\ IF runRet = "err"
       THEN /\ stderr' = Append(stderr, <<"Error:", runErr>>)
            /\ status' = ExecutionError
       ELSE /\ status' = StatusOK
            /\ UNCHANGED stderr
    /\ pc' = "done"
    /\ UNCHANGED <<flags, args, osStdin, s, consumed, scanErr, stdout,
                   runRet, runErr, versionPrinted, mapVars, textVars>>

Next ==
    \/ MainMissingInput \/ MainTooManyInputs \/ MainVersion
    \/ MainSmugglerFails \/ MainCallsRun
    \/ RunLine \/ RunEnd \/ RunScanFails \/ MainReturn

Spec == Init /\ [][Next]_vars

----------------------------------------------------------------------------
(* Reference definitions the claims are stated with *)

RangeA == range1S..range1E
RangeB == range2S..range2E

\* the reverse map by direct interval comparison
FromCodepointRef(cp) ==
    IF cp >= range1S /\ cp <= range1E THEN [byte |-> cp - range1S, err |-> FALSE]
    ELSE IF cp >= range2S /\ cp <= range2E
    THEN [byte |-> cp - range2S + 16, err |-> FALSE]
    ELSE [byte |-> 0, err |-> TRUE]

\* the forward map by its formula
ToCodepointRef(x) == IF x < 16 THEN range1S + x ELSE range2S + (x - 16)

Printable(x) == x >= 33 /\ x <= 126
PrintablePayload(p) == p # <<>> /\ \A i \in 1..Len(p) : Printable(p[i])

IsSelector(cp) == cp \in RangeA \/ cp \in RangeB
NoSelector(cps) == \A i \in 1..Len(cps) : ~IsSelector(cps[i])

\* one byte per codepoint: the byte of a selector, newline for anything else
RefMessage(cps) ==
    [i \in 1..Len(cps) |->
        IF IsSelector(cps[i]) THEN FromCodepointRef(cps[i]).byte ELSE 10]

\* the white space characters of Unicode, and their UTF-8 encodings
WhiteSpace ==
    {9, 10, 11, 12, 13, 32, 133, 160, 5760} \cup (8192..8202)
    \cup {8232, 8233, 8239, 8287, 12288}
SpaceEncodings == {EncodeRune(c) : c \in WhiteSpace}

IsPrefix(w, str) == Len(w) <= Len(str) /\ SubSeq(str, 1, Len(w)) = w
IsSuffix(w, str) ==
    Len(w) <= Len(str) /\ SubSeq(str, Len(str) - Len(w) + 1, Len(str)) = w

\* str is white space characters only
RECURSIVE AllSpace(_)
AllSpace(str) ==
    \/ str = <<>>
    \/ \E w \in SpaceEncodings :
          IsPrefix(w, str) /\ AllSpace(SubSeq(str, Len(w) + 1, Len(str)))

\* res is msg without its leading and trailing white space, interior kept
IsTrimOf(res, msg) ==
    \E i \in 0..Len(msg) : \E j \in i..Len(msg) :
        /\ res = SubSeq(msg, i + 1, j)
        /\ AllSpace(SubSeq(msg, 1, i))
        /\ AllSpace(SubSeq(msg, j + 1, Len(msg)))
        /\ \A w \in SpaceEncodings : ~IsPrefix(w, res) /\ ~IsSuffix(w, res)

\* msg is newlines, then p, then newlines, at least one on each side
NewlinesAround(msg, p) ==
    \E m \in 1..Len(msg) :
        /\ m + Len(p) < Len(msg)
        /\ SubSeq(msg, m + 1, m + Len(p)) = p
        /\ \A i \in (1..m) \cup ((m + Len(p) + 1)..Len(msg)) : msg[i] = 10

----------------------------------------------------------------------------
(* Claims on the map (SpecMap) *)

\* C3: for every byte b, variationSelectorToByte(byteToVariationSelector(b))
\* succeeds and returns b; byteToVariationSelector is injective; its image is
\* exactly RangeA \cup RangeB, bytes 0..15 onto RangeA and 16..255 onto RangeB.
C3_Bijection ==
    /\ mapPc = "selector" =>
          /\ (b < 16 <=> vs \in RangeA) /\ (b >= 16 <=> vs \in RangeB)
          /\ \A y \in Bytes : byteToVariationSelector(y) = vs => y = b
    /\ mapPc = "back" /\ b # -1 => ~back.err /\ back.byte = b
    /\ {byteToVariationSelector(x) : x \in 0..15} = RangeA
    /\ {byteToVariationSelector(x) : x \in 16..255} = RangeB

C3_Witness ==
    mapPc = "back" /\ b = 255 /\ vs = range2E /\ ~back.err /\ back.byte = 255

\* C4: the reverse map written as two loops equals the interval comparison
\* on every codepoint: cp - 0xFE00 in the first range, cp - 0xE0100 + 16 in
\* the second, an error everywhere else.
C4_LoopEqualsIntervals ==
    mapPc = "back" =>
        /\ back.err = FromCodepointRef(vs).err
        /\ ~back.err => back.byte = FromCodepointRef(vs).byte

C4_Witness ==
    mapPc = "back" /\ b = -1 /\ vs = range2E + 1 /\ back.err

----------------------------------------------------------------------------
(* Claims on EncodeText and DecodeText (SpecEncode, SpecDecode) *)

\* C1: round trip: for a carrier of one character and a non-empty payload of
\* printable non-whitespace bytes, EncodeText succeeds and DecodeText of its
\* result returns the payload, with no error.
C1_RoundTrip ==
    /\ phase = "encoded" /\ Len(line) = 1 /\ PrintablePayload(clearText)
          => encErr = ""
    /\ phase = "decoded" /\ Len(line) = 1 /\ PrintablePayload(clearText)
          => decErr = "" /\ decoded = clearText

C1_Witness ==
    /\ phase = "decoded" /\ line = <<128512>> /\ clearText = <<33, 126>>
    /\ decErr = "" /\ decoded = <<33, 126>>

\* C2: a successful EncodeText returns the first character (whole codepoint)
\* of the carrier, one selector per payload byte in order, then the rest of
\* the carrier's characters unchanged.
C2_EncodeLayout ==
    phase \in {"encoded", "decoded"} /\ encErr = "" =>
        encoded = EncodeRune(line[1])
                  \o Utf8([i \in 1..Len(clearText) |-> ToCodepointRef(clearText[i])])
                  \o Utf8(Tail(line))

\* C5: EncodeText fails, with an empty result, exactly when the carrier line
\* or the payload is empty; DecodeText fails exactly when its text is empty.
C5_EmptyInputRejection ==
    /\ phase \in {"encoded", "decoded"} =>
          /\ encErr # "" <=> (target = <<>> \/ clearText = <<>>)
          /\ encErr # "" => encoded = <<>>
    /\ phase \in {"decoded", "decodedLine"} => (decErr # "" <=> decIn = <<>>)

C5_Witness ==
    phase = "encoded" /\ target # <<>> /\ clearText = <<>> /\ encErr # ""
    /\ encoded = <<>>

\* C6: for a non-empty text DecodeText returns, without error, the trimmed
\* form of one byte per codepoint: the selector's byte, or newline for any
\* other codepoint; only leading and trailing white space is removed.
C6_DecodeIsTrimmedMessage ==
    phase = "decodedLine" /\ line # <<>> =>
        decErr = "" /\ IsTrimOf(decoded, RefMessage(line))

C6_Witness ==
    /\ phase = "decodedLine" /\ line = <<917809, 65, 917809>>
    /\ decoded = <<65, 10, 65>>

\* C10 as stated: for every carrier of several characters, whatever its
\* remainder holds, DecodeText(EncodeText(carrier)) is the payload.
C10_TrailingAlwaysAbsorbed ==
    phase = "decoded" /\ Len(line) >= 2 /\ PrintablePayload(clearText)
        => decoded = clearText

\* C10 amended: the same for every carrier whose remainder holds no
\* variation selector; the first character and the remainder decode to
\* newlines only, before and after the payload.
C10_TrailingAbsorbed ==
    phase = "decoded" /\ Len(line) >= 2 /\ PrintablePayload(clearText)
    /\ NoSelector(Tail(line))
        => /\ decoded = clearText
           /\ NewlinesAround(decode(decIn), clearText)

C10_Witness ==
    /\ phase = "decoded" /\ line = <<128512, 65>> /\ clearText = <<65, 33>>
    /\ decoded = <<65, 33>>

----------------------------------------------------------------------------
(* Claims on Run and Main (Spec) *)

\* Run has been called
RunCalled == pc \in {"run", "ret"} \/ runRet # "none"

\* the input lines of the Run: those scanned so far and those still to come
RunInput == consumed \o s.stdin

\* line k is the first line of the input whose transform fails
FirstFailing(k) ==
    /\ k \in 1..Len(RunInput)
    /\ Transform(s, RunInput[k]).err # ""
    /\ \A j \in 1..(k - 1) : Transform(s, RunInput[j]).err = ""

\* C7: the first input line whose transform fails ends the Run: Run returns
\* that error, nothing is written for that line or a later one, no later
\* line is transformed, what was written before stays; an empty line fails
\* in both modes.
C7_FirstErrorAborts ==
    RunCalled =>
        /\ \A k \in 1..Len(RunInput) :
              FirstFailing(k) =>
                  /\ Len(stdout) < k
                  /\ Len(consumed) <= k
                  /\ Len(consumed) = k =>
                        /\ runRet = "err"
                        /\ runErr = Transform(s, RunInput[k]).err
                        /\ Len(stdout) = k - 1
                        /\ pc \in {"ret", "done"}
        /\ \A k \in 1..Len(RunInput) :
              RunInput[k] = <<>> => Transform(s, RunInput[k]).err # ""
        /\ runRet = "err" => FirstFailing(Len(consumed))
        /\ pc = "done" /\ runRet = "err" => status = ExecutionError

C7_Witness ==
    /\ pc = "done" /\ runRet = "err" /\ Len(consumed) = 2 /\ Len(stdout) = 1
    /\ s.stdin # <<>> /\ consumed[2] = <<>>

\* C8: at every point of a Run the output written so far is the transforms
\* of the lines read so far, in order, each with one line terminator, one
\* write per line; when the input ends without error Run returns nil with
\* one output line per input line.
C8_OutputFollowsInput ==
    RunCalled =>
        /\ Len(stdout) = Len(consumed) - (IF runRet = "err" THEN 1 ELSE 0)
        /\ \A k \in 1..Len(stdout) :
              /\ Transform(s, RunInput[k]).err = ""
              /\ stdout[k] = Transform(s, RunInput[k]).res \o <<10>>
        /\ runRet = "nil" /\ ~scanErr =>
              s.stdin = <<>> /\ Len(stdout) = Len(RunInput)

C8_Witness ==
    /\ pc = "done" /\ runRet = "nil" /\ ~scanErr /\ s.encode
    /\ Len(stdout) = 2 /\ consumed = <<Utf8(<<65, 917777>>), <<65>>>>

\* what Main's return says about the stderr, the stdout and the input, and
\* when the status is zero
ReportsAndStatus ==
    /\ status \in {MissingInputError, TooManyInputsError} =>
          stderr # <<>> /\ stdout = <<>> /\ consumed = <<>> /\ runRet = "none"
    /\ status = StatusOK <=> (versionPrinted \/ runRet = "nil")
    /\ status # StatusOK <=> stderr # <<>>

\* C9 as stated: no usable flag value gives MissingInputError, and more than
\* one flag on the command line always gives TooManyInputsError.
C9_FlagValidationAsStated ==
    pc = "done" =>
        /\ NoneUsable(flags) => status = MissingInputError
        /\ NFlag(flags) > 1 => status = TooManyInputsError
        /\ ReportsAndStatus

\* C9 amended: no usable flag value gives MissingInputError; more than one
\* flag of which at least one has a usable value gives TooManyInputsError; in
\* both cases stderr gets a message, no line is read and stdout stays empty;
\* the status is zero exactly when the version was printed or Run returned nil.
C9_FlagValidation ==
    pc = "done" =>
        /\ NoneUsable(flags) <=> status = MissingInputError
        /\ (NFlag(flags) > 1 /\ ~NoneUsable(flags)) <=> status = TooManyInputsError
        /\ ReportsAndStatus

C9_Witness ==
    /\ pc = "done" /\ flags.set = {"decode", "encode"} /\ flags.decode
    /\ flags.encode # <<>> /\ status = TooManyInputsError /\ osStdin # <<>>
    /\ stdout = <<>>

====
